---- MODULE Spec2Model ----
(***************************************************************************)
(* Model of the zstd decoder witness types                                 *)
(* (aggregator/src/aggregation/decoder/witgen/types.rs):                   *)
(*   - FseAuxiliaryTableData::reconstruct, stepped one loop iteration at a *)
(*     time, and FseAuxiliaryTableData::parse_state_table;                 *)
(*   - the tag ROM table RomTagTableRow::rows and the initial witness row; *)
(*   - the ZstdTag flag methods, the integer conversions and the           *)
(*     predefined state-action tables of SequenceFixedStateActionTable;    *)
(*   - the repeated-offset cache of the sequence/address reconstruction;   *)
(* of BusOpCounter (gadgets/src/bus/bus_port.rs) and of                    *)
(* PairSelectGadget::assign (evm_circuit/util/math_gadget.rs).             *)
(***************************************************************************)
EXTENDS Integers, Sequences, FiniteSets, TLC

\* ------------------------------------------------------------------ bounds
\* longest enumerated byte slice
MaxLen == 4
\* largest enumerated byte_offset
MaxOff == 1
\* largest value of the 4-bit accuracy-log field at byte_offset in enumerated inputs
MaxAccField == 1
\* number of times a finished call is repeated on a slice changed outside the bytes it consumed
MaxCorrupt == 2
\* largest src_len given to ZstdWitnessRow::init
MaxSrcLen == 24
\* number of times a finished call is repeated on the unchanged slice
MaxCalls == 1
\* number of sequence instructions resolved against the repeated-offset cache
MaxInstr == 3
\* largest cooked match offset code of an instruction
MaxCooked == 6
\* number of operations reported to the BusOpCounter
MaxOps == 3
\* largest count of a reported put or take
MaxCount == 1

\* bytes the enumerated slices are made of
ByteVals == {16, 50, 129, 143, 238, 252}

\* the slice and offset of tests::test_fse_reconstruction
TestSrc1 == <<255, 255, 255, 48, 111, 155, 3, 255, 255, 255>>
TestOff1 == 3
\* the slice and offset of tests::test_sequences_fse_reconstruction
TestSrc2 == <<33, 157, 81, 204, 24, 66, 68, 129, 140, 148, 180, 80, 30>>
TestOff2 == 0

N_BITS_PER_BYTE == 8

\* ------------------------------------------------------- bitstream reading
\* src.iter().skip(byte_offset).cloned().collect()
SkipBytes(s, off) == IF off >= Len(s) THEN <<>> ELSE SubSeq(s, off + 1, Len(s))

\* bit p (0-based, little-endian within each byte) of a byte vector
Bit(data, p) == (data[(p \div 8) + 1] \div (2 ^ (p % 8))) % 2

\* whether n bits starting at bit p lie inside the byte vector
CanRead(data, p, n) == p + n <= 8 * Len(data)

RECURSIVE ReadBits(_, _, _)
\* BitReader<LittleEndian>::read(n) at bit position p: the first bit read is the least significant
ReadBits(data, p, n) ==
    IF n = 0 THEN 0 ELSE Bit(data, p) + 2 * ReadBits(data, p + 1, n - 1)

RECURSIVE bit_length(_)
\* number of bits needed to write v in binary
bit_length(v) == IF v = 0 THEN 0 ELSE 1 + bit_length(v \div 2)

\* the failed read of the bit reader
Eof == [ok |-> FALSE, n_bits |-> 0, value |-> 0]

\* truncated-binary read of a value in 0..r at bit `offset`: one bit fewer than
\* bit_length(r) when the short value is below the cut-off
read_variable_bit_packing(data, offset, r) ==
    LET size == bit_length(r)
        max == 2 ^ size
        lo_pin == max - 1 - r
    IN  IF r + 1 = max
        THEN IF CanRead(data, offset, size)
             THEN [ok |-> TRUE, n_bits |-> size, value |-> ReadBits(data, offset, size)]
             ELSE Eof
        ELSE IF ~CanRead(data, offset, size - 1) THEN Eof
        ELSE LET lo == ReadBits(data, offset, size - 1)
             IN  IF lo < lo_pin
                 THEN [ok |-> TRUE, n_bits |-> size - 1, value |-> lo]
                 ELSE IF ~CanRead(data, offset, size) THEN Eof
                 ELSE LET hi == ReadBits(data, offset, size)
                      IN  [ok |-> TRUE, n_bits |-> size,
                           value |-> IF hi >= max \div 2 THEN hi - lo_pin ELSE hi]

RECURSIVE next_power_of_two(_)
\* smallest power of two that is >= n (n >= 1)
next_power_of_two(n) == IF n <= 1 THEN 1 ELSE 2 * next_power_of_two((n + 1) \div 2)

\* n copies of v
Repeat(v, n) == [i \in 1..n |-> v]

\* number of bits of each of the n states of a symbol in a table of `total` slots:
\* the first (next_power_of_two(n) - n) states get a double share
smaller_powers_of_two(total, n) ==
    LET next == next_power_of_two(n)
        diff == next - n
        nb == bit_length(total \div next) - 1
    IN  [idx |-> diff, nbs |-> Repeat(nb + 1, diff) \o Repeat(nb, n - diff)]

\* ---------------------------------------------------- sequences and maps
rotate_left(s, k) == SubSeq(s, k + 1, Len(s)) \o SubSeq(s, 1, k)
rotate_right(s, k) == rotate_left(s, Len(s) - k)

\* BTreeMap::insert
MapInsert(m, key, v) == (key :> v) @@ m
EmptyMap == [k \in {} |-> 0]

\* InsertEmpty starting one key too far
InsertEmpty_Shifted(m, from, cnt) == [k \in (from + 1)..(from + cnt) |-> <<>>] @@ m

\* InsertEmpty inserting one key more than the flag says
InsertEmpty_OneMore(m, from, cnt) == [k \in from..(from + cnt) |-> <<>>] @@ m

RECURSIVE InsertEmpty(_, _, _)
\* for k in 0..cnt { map.insert(from + k, vec![]) }
InsertEmpty(m, from, cnt) ==
    IF cnt = 0 THEN m ELSE InsertEmpty(MapInsert(m, from, <<>>), from + 1, cnt - 1)

\* ------------------------------------------------------- state spreading
\* SpreadStep with the odd constant 3 replaced by 2
SpreadStep_Even(table_size) == (table_size \div 2) + (table_size \div 8) + 2

\* the increment of the state between two allocated slots
SpreadStep(table_size) == (table_size \div 2) + (table_size \div 8) + 3

\* state += step; state &= table_size - 1   (table_size is a power of two)
NextState(st, table_size) == (st + SpreadStep(table_size)) % table_size

RECURSIVE StateAfter(_, _, _)
\* the running state after n advances, applied as two halves; every advance leaves the
\* state masked below table_size
StateAfter(st, n, table_size) ==
    IF n = 0 THEN st
    ELSE IF n = 1 THEN NextState(st, table_size)
    ELSE LET mid == StateAfter(st, n \div 2, table_size)
         IN  IF mid < table_size
             THEN StateAfter(mid, n - (n \div 2), table_size)
             ELSE mid

\* once(state).chain((1..N).map(|_| { advance; state })): the N slots of one symbol, unsorted
SpreadStates(st, n, table_size) == [i \in 1..n |-> StateAfter(st, i - 1, table_size)]

\* SortedStates without the sort
SortedStates_Unsorted(st, n, table_size) == SpreadStates(st, n, table_size)

\* .sorted().collect()
SortedStates(st, n, table_size) ==
    SortSeq(SpreadStates(st, n, table_size), LAMBDA a, b : a < b)

RECURSIVE SumShares(_, _, _)
\* the sum of (1 << nb) over nbs[lo..hi]
SumShares(nbs, lo, hi) ==
    IF lo > hi THEN 0
    ELSE IF lo = hi THEN 2 ^ nbs[lo]
    ELSE SumShares(nbs, lo, (lo + hi) \div 2) + SumShares(nbs, ((lo + hi) \div 2) + 1, hi)

\* rotated_nbs.iter().scan(0, |baseline, nb| { *baseline += 1 << nb; Some(*baseline) })
ScanBaselines(acc, nbs) == [i \in DOMAIN nbs |-> acc + SumShares(nbs, 1, i)]

\* Baselines without the final rotate_right
Baselines_NoRotateBack(n, idx, nbs) ==
    IF n = 1 THEN <<0>>
    ELSE SubSeq(<<0>> \o ScanBaselines(0, rotate_left(nbs, idx)), 1, n)

\* the baselines of the N states of one symbol
Baselines(n, idx, nbs) ==
    IF n = 1 THEN <<0>>
    ELSE LET rotated_nbs == rotate_left(nbs, idx)
             scanned == <<0>> \o ScanBaselines(0, rotated_nbs)
             taken == SubSeq(scanned, 1, IF n < Len(scanned) THEN n ELSE Len(scanned))
         IN  rotate_right(taken, idx)

Min3(a, b, c) == IF a <= b /\ a <= c THEN a ELSE IF b <= c THEN b ELSE c

\* MakeRow with the baseline taken modulo the share of the row
MakeRow_LocalBaseline(st, nb, baseline, symbol) ==
    [state |-> st, num_bits |-> nb, baseline |-> baseline % (2 ^ nb), symbol |-> symbol,
     num_emitted |-> 0, n_acc |-> 0]

\* the FseTableRow built from one zipped (state, nb, baseline)
MakeRow(st, nb, baseline, symbol) ==
    [state |-> st, num_bits |-> nb, baseline |-> baseline, symbol |-> symbol,
     num_emitted |-> 0, n_acc |-> 0]

\* states.iter().zip(nbs).zip(baselines).map(..).collect(): the rows of one symbol
SymbolRows(symbol, st, n, table_size) ==
    LET states == SortedStates(st, n, table_size)
        spot == smaller_powers_of_two(table_size, n)
        baselines == Baselines(n, spot.idx, spot.nbs)
        len == Min3(Len(states), Len(spot.nbs), Len(baselines))
    IN  [i \in 1..len |-> MakeRow(states[i], spot.nbs[i], baselines[i], symbol)]

\* ------------------------------------------------------ parse_state_table
MaxOf(S) == CHOOSE x \in S : \A y \in S : y <= x

RECURSIVE FlatRange(_, _, _)
\* the rows of the keys lo..hi of the map, in key order
FlatRange(m, lo, hi) ==
    IF lo > hi THEN <<>>
    ELSE IF lo = hi THEN (IF lo \in DOMAIN m THEN m[lo] ELSE <<>>)
    ELSE FlatRange(m, lo, (lo + hi) \div 2) \o FlatRange(m, ((lo + hi) \div 2) + 1, hi)

\* self.sym_to_states.values().flat_map(|v| v.clone()).collect(): rows in key order
FlatRows(m) == IF DOMAIN m = {} THEN <<>> ELSE FlatRange(m, 0, MaxOf(DOMAIN m))

\* StateEntry with baseline and num_bits exchanged
StateEntry_Swapped(r) == <<r.symbol, r.num_bits, r.baseline>>

\* the value stored for one row: (row.symbol, row.baseline, row.num_bits)
StateEntry(r) == <<r.symbol, r.baseline, r.num_bits>>

\* for row in rows { state_table.insert(row.state, ..) }: a later row replaces an earlier one
InsertRows(rows) ==
    [s \in {rows[i].state : i \in DOMAIN rows} |->
        StateEntry(rows[MaxOf({i \in DOMAIN rows : rows[i].state = s})])]

parse_state_table(table) == InsertRows(FlatRows(table.sym_to_states))

\* ------------------------------------------------------ tag ROM table
\* the (tag, tag_next, max_len) triples of RomTagTableRow::rows
RomRows ==
    << [tag |-> "FrameHeaderDescriptor", tag_next |-> "FrameContentSize", max_len |-> 1],
       [tag |-> "FrameContentSize", tag_next |-> "BlockHeader", max_len |-> 8],
       [tag |-> "BlockHeader", tag_next |-> "ZstdBlockLiteralsHeader", max_len |-> 3],
       [tag |-> "ZstdBlockLiteralsHeader", tag_next |-> "ZstdBlockLiteralsRawBytes", max_len |-> 5],
       [tag |-> "ZstdBlockLiteralsRawBytes", tag_next |-> "ZstdBlockSequenceHeader",
        max_len |-> 1048575] >>

\* the rows of the ROM table whose tag is `tag`
RowsOf(tag) == {i \in DOMAIN RomRows : RomRows[i].tag = tag}

\* ZstdState::default
ZstdState_default ==
    [tag |-> "Null", tag_next |-> "FrameHeaderDescriptor", max_tag_len |-> 0, tag_len |-> 0,
     tag_idx |-> 0, is_tag_change |-> FALSE]

\* ZstdWitnessRow_init with the whole of encoded_data left at its default
ZstdWitnessRow_init_NoLen(src_len) ==
    [state |-> ZstdState_default, byte_idx |-> 0, encoded_len |-> 0]

\* ZstdWitnessRow::init(src_len): the state and the encoded-data cursor of the first row
ZstdWitnessRow_init(src_len) ==
    [state |-> ZstdState_default, byte_idx |-> 0, encoded_len |-> src_len]

\* ------------------------------------------------------ tag predicates
\* the variants of enum ZstdTag
ZstdTags ==
    {"Null", "FrameHeaderDescriptor", "FrameContentSize", "BlockHeader", "RawBlockBytes",
     "RleBlockBytes", "ZstdBlockLiteralsHeader", "ZstdBlockLiteralsRawBytes",
     "ZstdBlockLiteralsRleBytes", "ZstdBlockFseCode", "ZstdBlockHuffmanCode",
     "ZstdBlockJumpTable", "ZstdBlockLstream", "ZstdBlockSequenceHeader",
     "ZstdBlockSequenceData"}

\* ZstdTag::is_output: the match arms that give true
is_output(tag) == tag \in {"RawBlockBytes", "RleBlockBytes", "ZstdBlockSequenceData"}

\* ZstdTag::is_block: the match arms that give false are the four frame-level tags
is_block(tag) ==
    tag \notin {"Null", "FrameHeaderDescriptor", "FrameContentSize", "BlockHeader"}

\* is_reverse with the BlockHeader arm giving false
is_reverse_NoBlockHeader(tag) ==
    tag \in {"FrameContentSize", "ZstdBlockHuffmanCode", "ZstdBlockLstream",
             "ZstdBlockSequenceData"}

\* ZstdTag::is_reverse: the match arms that give true
is_reverse(tag) ==
    tag \in {"FrameContentSize", "BlockHeader", "ZstdBlockHuffmanCode", "ZstdBlockLstream",
             "ZstdBlockSequenceData"}

\* RomTagTableRow::rows: each triple mapped to a row with the three flags of its tag
RomTagTableRow_rows ==
    [i \in DOMAIN RomRows |->
        [tag |-> RomRows[i].tag, tag_next |-> RomRows[i].tag_next,
         max_len |-> RomRows[i].max_len,
         is_output |-> is_output(RomRows[i].tag),
         is_reverse |-> is_reverse(RomRows[i].tag),
         is_block |-> is_block(RomRows[i].tag)]]

\* ------------------------------------- predefined state-action tables
\* LltvDirect with the baseline idx + 1 instead of idx
LltvDirect_FromOne == [i \in 1..16 |-> <<i - 1, <<i, 0>>>>]

\* reconstruct_lltv, first loop: for idx in 0..=15 push (idx, (idx, 0))
LltvDirect == [i \in 1..16 |-> <<i - 1, <<i - 1, 0>>>>]

\* reconstruct_lltv, the literal rows (state, baseline, num_bits)
LltvRows ==
    << <<16, 16, 1>>, <<17, 18, 1>>, <<18, 20, 1>>, <<19, 22, 1>>, <<20, 24, 2>>,
       <<21, 28, 2>>, <<22, 32, 3>>, <<23, 40, 3>>, <<24, 48, 4>>, <<25, 64, 6>>,
       <<26, 128, 7>>, <<27, 256, 8>>, <<28, 512, 9>>, <<29, 1024, 10>>, <<30, 2048, 11>>,
       <<31, 4096, 12>>, <<32, 8192, 13>>, <<33, 16384, 14>>, <<34, 32768, 15>>,
       <<35, 65536, 16>> >>

\* PushRows pushing (row.0, (row.2, row.1))
PushRows_Swapped(rows) == [j \in DOMAIN rows |-> <<rows[j][1], <<rows[j][3], rows[j][2]>>>>]

\* for row in rows { states_to_actions.push((row.0, (row.1, row.2))) }
PushRows(rows) == [j \in DOMAIN rows |-> <<rows[j][1], <<rows[j][2], rows[j][3]>>>>]

\* SequenceFixedStateActionTable::reconstruct_lltv: states_to_actions
reconstruct_lltv == LltvDirect \o PushRows(LltvRows)

\* MltvDirect with the baseline idx instead of idx + 3
MltvDirect_NoMinMatch == [i \in 1..32 |-> <<i - 1, <<i - 1, 0>>>>]

\* reconstruct_mltv, first loop: for idx in 0..=31 push (idx, (idx + 3, 0))
MltvDirect == [i \in 1..32 |-> <<i - 1, <<(i - 1) + 3, 0>>>>]

\* reconstruct_mltv, the literal rows (state, baseline, num_bits)
MltvRows ==
    << <<32, 35, 1>>, <<33, 37, 1>>, <<34, 39, 1>>, <<35, 41, 1>>, <<36, 43, 2>>,
       <<37, 47, 2>>, <<38, 51, 3>>, <<39, 59, 3>>, <<40, 67, 4>>, <<41, 83, 4>>,
       <<42, 99, 5>>, <<43, 131, 7>>, <<44, 259, 8>>, <<45, 515, 9>>, <<46, 1027, 10>>,
       <<47, 2051, 11>>, <<48, 4099, 12>>, <<49, 8195, 13>>, <<50, 16387, 14>>,
       <<51, 32771, 15>>, <<52, 65539, 16>> >>

\* SequenceFixedStateActionTable::reconstruct_mltv: states_to_actions
reconstruct_mltv == MltvDirect \o PushRows(MltvRows)

\* ------------------------------------------- reconstruct_cmotv (offsets)
\* the largest n reconstruct_cmotv is called with
MaxCmotN == 33

\* the two settings of overflow checks a build can have: on ("debug") or off ("release")
Builds == {"debug", "release"}

\* the width of the type of the unsuffixed literal 1 in `1 << idx`: i32
I32_BITS == 32

\* i32::MIN, the value of the bit pattern with only bit 31 set
I32_MIN == (-(2 ^ 30)) - (2 ^ 30)

\* 1i32 << k for k < 32: bit k set, which is i32::MIN for k = 31
Shl1(k) == IF k = I32_BITS - 1 THEN I32_MIN ELSE 2 ^ k

\* `1 << idx` on i32: a shift by 32 or more panics with overflow checks and shifts by
\* idx % 32 without them
ShlI32(idx, build) ==
    IF idx >= I32_BITS
    THEN IF build = "debug" THEN [panic |-> TRUE] ELSE [panic |-> FALSE, v |-> Shl1(idx % I32_BITS)]
    ELSE [panic |-> FALSE, v |-> Shl1(idx)]

\* `v as u64` for an i32 v: sign extension; the u64 is held as four 16-bit limbs, lowest first
AsU64(v) ==
    << v % 65536, (v \div 65536) % 65536,
       IF v < 0 THEN 65535 ELSE 0, IF v < 0 THEN 65535 ELSE 0 >>

\* reconstruct_cmotv(n): for idx in 0..=n push (idx, ((1 << idx) as u64, idx))
reconstruct_cmotv(n, build) ==
    IF \E idx \in 0..n : ShlI32(idx, build).panic
    THEN [kind |-> "Panic"]
    ELSE [kind |-> "Ok",
          states_to_actions |->
              [i \in 1..(n + 1) |-> <<i - 1, <<AsU64(ShlI32(i - 1, build).v), i - 1>>>>]]

\* ------------------------------------------------- integer conversions
\* BlockType_from with the last arm catching every other value
BlockType_from_Catchall(v) ==
    CASE v = 0 -> "RawBlock"
      [] v = 1 -> "RleBlock"
      [] v = 2 -> "ZstdCompressedBlock"
      [] OTHER -> "Reserved"

\* impl From<u8> for BlockType: unreachable! for every value above 3
BlockType_from(v) ==
    CASE v = 0 -> "RawBlock"
      [] v = 1 -> "RleBlock"
      [] v = 2 -> "ZstdCompressedBlock"
      [] v = 3 -> "Reserved"
      [] OTHER -> "Panic"

\* impl From<usize> for FseSymbol: S0..S7, unreachable! for every other value
FseSymbol_from(v) ==
    CASE v = 0 -> "S0"
      [] v = 1 -> "S1"
      [] v = 2 -> "S2"
      [] v = 3 -> "S3"
      [] v = 4 -> "S4"
      [] v = 5 -> "S5"
      [] v = 6 -> "S6"
      [] v = 7 -> "S7"
      [] OTHER -> "Panic"

\* impl From<usize> for LstreamNum: Lstream1..Lstream4, unreachable! for every other value
LstreamNum_from(v) ==
    CASE v = 0 -> "Lstream1"
      [] v = 1 -> "Lstream2"
      [] v = 2 -> "Lstream3"
      [] v = 3 -> "Lstream4"
      [] OTHER -> "Panic"

\* the values the conversions are called with: every u8
ConvInputs == 0..255

\* -------------------------------------------- repeated-offset resolution
\* the literal lengths of the enumerated instructions: zero and non-zero
LiteralLengths == {0, 2}

\* the match length of the enumerated instructions
MatchLengths == {3}

\* PushFront overwriting the front entry and keeping the other two
PushFront_NoEvict(cache, o) == <<o, cache[2], cache[3]>>

\* a new offset enters the cache at the front and the oldest entry leaves
PushFront(cache, o) == <<o, cache[1], cache[2]>>

\* the actual offset and the cache after an instruction: codes above 3 give the new offset
\* cooked - 3; codes 1..3 select from the cache, shifted by one when literal_length is 0
ResolveOffset(cache, literal_length, cooked) ==
    IF cooked >= 4
    THEN [actual |-> cooked - 3, cache |-> PushFront(cache, cooked - 3)]
    ELSE LET sel == IF literal_length = 0 THEN cooked + 1 ELSE cooked
         IN  CASE sel = 1 -> [actual |-> cache[1], cache |-> cache]
               [] sel = 2 -> [actual |-> cache[2], cache |-> <<cache[2], cache[1], cache[3]>>]
               [] sel = 3 -> [actual |-> cache[3], cache |-> PushFront(cache, cache[3])]
               [] OTHER -> [actual |-> cache[1] - 1, cache |-> PushFront(cache, cache[1] - 1)]

\* the running sum of literal lengths before the next instruction
LiteralLengthAcc(rows) == IF rows = <<>> THEN 0 ELSE rows[Len(rows)].literal_length_acc

\* the AddressTableRow of an instruction
MakeAddressRow(rows, literal_length, cooked, match_length, res) ==
    [s_padding |-> 0, instruction_idx |-> Len(rows), literal_length |-> literal_length,
     cooked_match_offset |-> cooked, match_length |-> match_length,
     literal_length_acc |-> LiteralLengthAcc(rows) + literal_length,
     repeated_offset1 |-> res.cache[1], repeated_offset2 |-> res.cache[2],
     repeated_offset3 |-> res.cache[3], actual_offset |-> res.actual]

\* --------------------------------------------------------- BusOpCounter
\* the field elements used as messages; 256 differs from 0 in the second byte of its key
BusMessages == {0, 1, 256}

\* Value::known(v) and Value::unknown()
Known(v) == [known |-> TRUE, v |-> v]
Unknown == [known |-> FALSE]

\* Max of two integers: isize::max
Max(a, b) == IF a >= b THEN a ELSE b

\* BusOp::put(message, count)
BusOp_put(message, count) == [message |-> message, count |-> count]

\* BusOp_take keeping the sign of count
BusOp_take_NoNeg(message, count) == BusOp_put(message, count)

\* BusOp::take(message, count) = put(message, -count)
BusOp_take(message, count) == BusOp_put(message, -count)

\* message.to_repr(): the 32 little-endian bytes of a field element below 2^16
to_repr(v) ==
    [i \in 1..32 |-> IF i = 1 THEN v % 256 ELSE IF i = 2 THEN (v \div 256) % 256 ELSE 0]

\* BusOpCounter::to_key: Vec::from(message.to_repr().as_ref())
to_key(v) == to_repr(v)

\* BusOpCounter::set_op on the map counts: nothing for an unknown message, otherwise
\* entry(key).and_modify(|c| *c = *c + op.count()).or_insert_with(|| op.count())
set_op(counts, op) ==
    IF ~op.message.known THEN counts
    ELSE LET key == to_key(op.message.v)
         IN  IF key \in DOMAIN counts
             THEN [counts EXCEPT ![key] = @ + op.count]
             ELSE (key :> op.count) @@ counts

\* BusOpCounter::count_ops: 0 for an unknown message or a key not in the map
count_ops(counts, message) ==
    IF ~message.known THEN 0
    ELSE IF to_key(message.v) \in DOMAIN counts THEN counts[to_key(message.v)] ELSE 0

\* BusOpCounter::count_takes
count_takes(counts, message) == Max(-count_ops(counts, message), 0)

\* BusOpCounter::count_puts
count_puts(counts, message) == Max(count_ops(counts, message), 0)

\* ----------------------------------------------------- PairSelectGadget
\* the elements of the field F the gadget values are drawn from (a small prime field)
FieldElems == 0..6

\* F::one() and F::zero()
F_one == 1
F_zero == 0

\* x - y in the field
F_sub(x, y) == (x - y + Cardinality(FieldElems)) % Cardinality(FieldElems)

\* PairSelectGadget::assign(value, a, _b): the returned (is_a, is_b)
PairSelectGadget_assign(value, a, b) ==
    LET is_a == IF value = a THEN F_one ELSE F_zero
    IN  <<is_a, F_sub(F_one, is_a)>>

\* ------------------------------------------------------------- LtGadget
\* the elements of the field F the comparison gadget is instantiated with: a prime field
\* wide enough for two values below 256^2 to be added without wrapping
WideFieldElems == 0..1000002

\* x - y and x + y in that field
W_sub(x, y) == (x - y + Cardinality(WideFieldElems)) % Cardinality(WideFieldElems)
W_add(x, y) == (x + y) % Cardinality(WideFieldElems)

\* the instantiations LtGadget<F, NUM_BYTES> that are called
LtNumBytes == {1, 2}

\* get_range(NUM_BYTES * 8): the range of the inputs, 256^NUM_BYTES
get_range(num_bits) == 2 ^ num_bits

\* the lhs and rhs the gadget is called with: the values below 256^NUM_BYTES among these
LtInputs(num_bytes) ==
    {v \in {0, 1, 2, 100, 254, 255, 256, 257, 300, 65534, 65535} : v < get_range(num_bytes * 8)}

\* F::to_bytes: the 32 little-endian bytes of a field element below 2^24
to_bytes(v) == [i \in 1..32 |-> IF i <= 3 THEN (v \div (256 ^ (i - 1))) % 256 ELSE 0]

RECURSIVE from_bytes(_)
\* from_bytes::expr: the little-endian value of a list of byte cells
from_bytes(bytes) ==
    IF bytes = <<>> THEN 0 ELSE bytes[1] + 256 * from_bytes(SubSeq(bytes, 2, Len(bytes)))

\* LtGadget_assign without the range added when lhs < rhs
LtGadget_assign_NoRange(num_bytes, lhs, rhs) ==
    LET lt == lhs < rhs
        diff_bytes == to_bytes(W_sub(lhs, rhs))
    IN  [lt_cell |-> IF lt THEN 1 ELSE 0,
         diff_cells |-> SubSeq(diff_bytes, 1, num_bytes),
         ret |-> <<IF lt THEN F_one ELSE F_zero, diff_bytes>>]

\* LtGadget::assign(lhs, rhs): the lt cell, the NUM_BYTES diff cells and the returned
\* (lt, diff_bytes)
LtGadget_assign(num_bytes, lhs, rhs) ==
    LET lt == lhs < rhs
        diff == W_add(W_sub(lhs, rhs), IF lt THEN get_range(num_bytes * 8) ELSE F_zero)
        diff_bytes == to_bytes(diff)
    IN  [lt_cell |-> IF lt THEN 1 ELSE 0,
         diff_cells |-> SubSeq(diff_bytes, 1, num_bytes),
         ret |-> <<IF lt THEN F_one ELSE F_zero, diff_bytes>>]

\* ---------------------------------------------------------- IsZeroGadget
\* x * y in the field of FieldElems
F_mul(x, y) == (x * y) % Cardinality(FieldElems)

\* value.invert(): the multiplicative inverse, none for zero
F_invert(value) ==
    IF value = F_zero THEN [some |-> FALSE]
    ELSE [some |-> TRUE, v |-> CHOOSE x \in FieldElems : F_mul(value, x) = F_one]

\* IsZeroGadget_assign with the inverse cell always assigned zero
IsZeroGadget_assign_NoInverse(value) ==
    [inverse_cell |-> F_zero, ret |-> IF value = F_zero THEN F_one ELSE F_zero]

\* IsZeroGadget::assign(value): the inverse cell and the returned value
IsZeroGadget_assign(value) ==
    LET inv == F_invert(value)
        inverse == IF inv.some THEN inv.v ELSE F_zero
    IN  [inverse_cell |-> inverse, ret |-> IF value = F_zero THEN F_one ELSE F_zero]

\* IsZeroGadget::construct: is_zero = 1 - value * inverse
IsZeroGadget_expr(value, inverse) == F_sub(F_one, F_mul(value, inverse))

\* IsZeroGadget::construct: the two constraints, each required to be zero
IsZeroGadget_constraints(value, inverse) ==
    << F_mul(value, IsZeroGadget_expr(value, inverse)),
       F_mul(inverse, IsZeroGadget_expr(value, inverse)) >>

\* ----------------------------------------------------------------- state
VARIABLES
    src,            \* the byte slice given to reconstruct
    byte_offset,    \* the byte_offset given to reconstruct
    pc,             \* position in reconstruct: "init", "loop", "repeat", "returned"
    offset,         \* number of bits read so far
    table_size,     \* 1 << accuracy_log
    R,              \* remaining slots
    state,          \* running state of the spread
    symbol,         \* next symbol id
    sym_to_states,  \* BTreeMap symbol -> rows
    bit_boundaries, \* Vec<(offset, value)>
    result,         \* what the call returned: Ok / Err / Panic, None while running
    ref,            \* the Ok result of the first call on the slice, once the slice was changed
    ncorrupt,       \* number of changes made to the slice
    row,            \* the witness row of the tag state machine
    prev,           \* what the previous call on the same slice and byte_offset returned
    ncalls,         \* number of repeated calls on the same slice and byte_offset
    call,           \* the last call of a table constructor or conversion, with what it returned
    bus,            \* the BusOpCounter and the operations reported to it
    seq             \* the repeated-offset cache and the address table rows produced

vars == <<src, byte_offset, pc, offset, table_size, R, state, symbol, sym_to_states,
          bit_boundaries, result, ref, ncorrupt, row, prev, ncalls, call, bus, seq>>

fseVars == <<src, byte_offset, pc, offset, table_size, R, state, symbol, sym_to_states,
             bit_boundaries, result, ref, ncorrupt, prev, ncalls>>

\* the state of the components other than reconstruct and the tag state machine
extVars == <<call, bus, seq>>

\* no table constructor or conversion was called yet
NoCall == [fn |-> "none"]

\* what a call left behind: the function, its argument and what it returned; the functions
\* called keep no state, so each call is made from the state where none was made
Called(fn, arg, out) == [fn |-> fn, arg |-> arg, out |-> out]

\* BusOpCounter::new: no counts; ops is the list of the operations reported so far
BusOpCounter_new == [counts |-> EmptyMap, ops |-> <<>>]

\* the repeated-offset cache before the first sequence, and no address table row yet
SeqStart == [cache |-> <<1, 4, 8>>, rows |-> <<>>]

\* the components other than reconstruct and the tag state machine before their first step
ExtIdle ==
    /\ call = NoCall
    /\ bus = BusOpCounter_new
    /\ seq = SeqStart

\* the bytes the bit reader sees
Data == SkipBytes(src, byte_offset)

NoResult == [kind |-> "None"]
ErrResult(e) == [kind |-> "Err", error |-> e]
PanicResult == [kind |-> "Panic"]
OkResult(t, bb, table) == [kind |-> "Ok", t |-> t, bit_boundaries |-> bb, table |-> table]

\* the local variables of reconstruct before its first read
FreshLocals ==
    /\ pc = "init"
    /\ offset = 0
    /\ table_size = 0
    /\ R = 0
    /\ state = 0
    /\ symbol = 0
    /\ sym_to_states = EmptyMap
    /\ bit_boundaries = <<>>
    /\ result = NoResult

\* ResetLocals with bit_boundaries kept from the call before
ResetLocals_KeepBoundaries ==
    /\ pc' = "init"
    /\ offset' = 0
    /\ table_size' = 0
    /\ R' = 0
    /\ state' = 0
    /\ symbol' = 0
    /\ sym_to_states' = EmptyMap
    /\ bit_boundaries' = bit_boundaries
    /\ result' = NoResult

\* a new call: the locals of reconstruct before its first read
ResetLocals ==
    /\ pc' = "init"
    /\ offset' = 0
    /\ table_size' = 0
    /\ R' = 0
    /\ state' = 0
    /\ symbol' = 0
    /\ sym_to_states' = EmptyMap
    /\ bit_boundaries' = <<>>
    /\ result' = NoResult

\* all byte slices of at most MaxLen bytes over ByteVals
BoundedSrcs == UNION {[1..n -> ByteVals] : n \in 0..MaxLen}

\* the (slice, byte_offset) pairs reconstruct is called on
Inputs ==
    {<<s, o>> \in BoundedSrcs \X (0..MaxOff) :
        o < Len(s) => s[o + 1] % 16 <= MaxAccField}
    \cup {<<TestSrc1, TestOff1>>, <<TestSrc2, TestOff2>>}

Init ==
    /\ \E in \in Inputs : src = in[1] /\ byte_offset = in[2]
    /\ FreshLocals
    /\ ref = NoResult
    /\ ncorrupt = 0
    /\ prev = NoResult
    /\ ncalls = 0
    /\ row = ZstdWitnessRow_init(Len(src))
    /\ ExtIdle

\* ReturnEof returning what was built so far as Ok
ReturnEof_Partial ==
    /\ pc' = "returned"
    /\ result' = OkResult(0, bit_boundaries,
                          [byte_offset |-> byte_offset, table_size |-> table_size,
                           sym_to_states |-> sym_to_states])
    /\ UNCHANGED <<offset, table_size, R, state, symbol, sym_to_states, bit_boundaries>>

\* a failed read: return Err(UnexpectedEof), the locals are dropped with the frame
ReturnEof ==
    /\ pc' = "returned"
    /\ result' = ErrResult("UnexpectedEof")
    /\ UNCHANGED <<offset, table_size, R, state, symbol, sym_to_states, bit_boundaries>>

\* ReadAccuracyLog recording the accuracy log itself instead of the field read
ReadAccuracyLog_RawBoundary ==
    /\ pc = "init"
    /\ IF ~CanRead(Data, 0, 4)
       THEN ReturnEof
       ELSE LET accuracy_log == ReadBits(Data, 0, 4) + 5
            IN  /\ offset' = 4
                /\ bit_boundaries' = Append(bit_boundaries, <<4, accuracy_log>>)
                /\ table_size' = 2 ^ accuracy_log
                /\ R' = 2 ^ accuracy_log
                /\ state' = 0
                /\ symbol' = 0
                /\ sym_to_states' = EmptyMap
                /\ pc' = "loop"
                /\ UNCHANGED result
    /\ UNCHANGED <<src, byte_offset, ref, ncorrupt, row, prev, ncalls, extVars>>

\* lines 609-621: the 4-bit accuracy log, table_size, R, state, symbol
ReadAccuracyLog ==
    /\ pc = "init"
    /\ IF ~CanRead(Data, 0, 4)
       THEN ReturnEof
       ELSE LET accuracy_log == ReadBits(Data, 0, 4) + 5
            IN  /\ offset' = 4
                /\ bit_boundaries' = Append(bit_boundaries, <<4, accuracy_log - 5>>)
                /\ table_size' = 2 ^ accuracy_log
                /\ R' = 2 ^ accuracy_log
                /\ state' = 0
                /\ symbol' = 0
                /\ sym_to_states' = EmptyMap
                /\ pc' = "loop"
                /\ UNCHANGED result
    /\ UNCHANGED <<src, byte_offset, ref, ncorrupt, row, prev, ncalls, extVars>>

\* unimplemented!("value=0 => prob=-1"): the thread panics
PanicUnimplemented ==
    /\ pc' = "returned"
    /\ result' = PanicResult

\* lines 622-635, 660-714: one iteration of `while R > 0`, up to the repeat-flag loop
ReadProbability ==
    /\ pc = "loop"
    /\ R > 0
    /\ LET rd == read_variable_bit_packing(Data, offset, R + 1)
       IN  IF ~rd.ok
           THEN ReturnEof
           ELSE IF rd.value = 0
           THEN /\ PanicUnimplemented
                /\ offset' = offset + rd.n_bits
                /\ bit_boundaries' = Append(bit_boundaries, <<offset + rd.n_bits, rd.value>>)
                /\ UNCHANGED <<table_size, R, state, symbol, sym_to_states>>
           ELSE LET N == rd.value - 1
                IN  /\ offset' = offset + rd.n_bits
                    /\ bit_boundaries' = Append(bit_boundaries, <<offset + rd.n_bits, rd.value>>)
                    /\ UNCHANGED <<table_size, result>>
                    /\ IF N = 0
                       THEN /\ sym_to_states' = MapInsert(sym_to_states, symbol, <<>>)
                            /\ symbol' = symbol + 1
                            /\ pc' = "repeat"
                            /\ UNCHANGED <<R, state>>
                       ELSE /\ sym_to_states' =
                                   MapInsert(sym_to_states, symbol,
                                             SymbolRows(symbol, state, N, table_size))
                            /\ symbol' = symbol + 1
                            /\ state' = StateAfter(state, N, table_size)
                            /\ R' = R - N
                            /\ pc' = "loop"
    /\ UNCHANGED <<src, byte_offset, ref, ncorrupt, row, prev, ncalls, extVars>>

\* ReadRepeatFlag reading a flag of 3 without consuming it
ReadRepeatFlag_Reread ==
    /\ pc = "repeat"
    /\ IF ~CanRead(Data, offset, 2)
       THEN ReturnEof
       ELSE LET repeat_bits == ReadBits(Data, offset, 2)
            IN  /\ offset' = IF repeat_bits < 3 THEN offset + 2 ELSE offset
                /\ bit_boundaries' = IF repeat_bits < 3
                                     THEN Append(bit_boundaries, <<offset + 2, repeat_bits>>)
                                     ELSE bit_boundaries
                /\ sym_to_states' = IF repeat_bits < 3
                                    THEN InsertEmpty(sym_to_states, symbol, repeat_bits)
                                    ELSE sym_to_states
                /\ symbol' = IF repeat_bits < 3 THEN symbol + repeat_bits ELSE symbol
                /\ pc' = IF repeat_bits < 3 THEN "loop" ELSE "repeat"
                /\ UNCHANGED <<table_size, R, state, result>>
    /\ UNCHANGED <<src, byte_offset, ref, ncorrupt, row, prev, ncalls, extVars>>

\* lines 644-657: one iteration of the repeat-flag loop; leaving it ends the outer iteration (R -= 0)
ReadRepeatFlag ==
    /\ pc = "repeat"
    /\ IF ~CanRead(Data, offset, 2)
       THEN ReturnEof
       ELSE LET repeat_bits == ReadBits(Data, offset, 2)
            IN  /\ offset' = offset + 2
                /\ bit_boundaries' = Append(bit_boundaries, <<offset + 2, repeat_bits>>)
                /\ sym_to_states' = InsertEmpty(sym_to_states, symbol, repeat_bits)
                /\ symbol' = symbol + repeat_bits
                /\ pc' = IF repeat_bits < 3 THEN "loop" ELSE "repeat"
                /\ UNCHANGED <<table_size, R, state, result>>
    /\ UNCHANGED <<src, byte_offset, ref, ncorrupt, row, prev, ncalls, extVars>>

\* ByteCount rounding down
ByteCount_Short(off) == off \div N_BITS_PER_BYTE

\* ByteCount adding a byte also when the reads ended on a byte boundary
ByteCount_Over(off) == (off \div N_BITS_PER_BYTE) + 1

\* the number of bytes read: ((offset - 1) / 8) + 1
ByteCount(off) == ((off - 1) \div N_BITS_PER_BYTE) + 1

\* lines 716-737: discard the bits up to the byte boundary and return
Finish ==
    /\ pc = "loop"
    /\ R = 0
    /\ LET t == ByteCount(offset)
           bits_remaining == t * N_BITS_PER_BYTE - offset
       IN  IF t * N_BITS_PER_BYTE > offset /\ ~CanRead(Data, offset, bits_remaining)
           THEN ReturnEof
           ELSE LET bb == IF t * N_BITS_PER_BYTE > offset
                          THEN Append(bit_boundaries,
                                      <<offset + bits_remaining,
                                        ReadBits(Data, offset, bits_remaining)>>)
                          ELSE bit_boundaries
                IN  /\ bit_boundaries' = bb
                    /\ result' = OkResult(t, bb,
                                          [byte_offset |-> byte_offset,
                                           table_size |-> table_size,
                                           sym_to_states |-> sym_to_states])
                    /\ pc' = "returned"
                    /\ UNCHANGED <<offset, table_size, R, state, symbol, sym_to_states>>
    /\ UNCHANGED <<src, byte_offset, ref, ncorrupt, row, prev, ncalls, extVars>>

\* the 1-based positions of the bytes a finished call consumed
Consumed == (byte_offset + 1)..(byte_offset + result.t)

\* tests::test_fse_reconstruction: a byte before byte_offset or after the consumed bytes is
\* replaced and reconstruct is called again on the changed slice
Corrupt ==
    /\ pc = "returned"
    /\ result.kind = "Ok"
    /\ ncorrupt < MaxCorrupt
    /\ \E i \in (1..Len(src)) \ Consumed : \E b \in ByteVals \ {src[i]} :
          src' = [src EXCEPT ![i] = b]
    /\ ref' = IF ncorrupt = 0 THEN result ELSE ref
    /\ ncorrupt' = ncorrupt + 1
    /\ ResetLocals
    /\ prev' = NoResult
    /\ ncalls' = 0
    /\ UNCHANGED <<byte_offset, row, extVars>>

\* reconstruct(src, byte_offset) is called once more on the unchanged slice: the function
\* takes only its two arguments, and every local is created anew
CallAgain ==
    /\ pc = "returned"
    /\ ncorrupt = 0
    /\ ncalls < MaxCalls
    /\ prev' = result
    /\ ncalls' = ncalls + 1
    /\ ResetLocals
    /\ UNCHANGED <<src, byte_offset, ref, ncorrupt, row, extVars>>

Next ==
    \/ ReadAccuracyLog
    \/ ReadProbability
    \/ ReadRepeatFlag
    \/ Finish
    \/ Corrupt
    \/ CallAgain

Spec == Init /\ [][Next]_vars

\* ReadProbability is enabled exactly in the states where the loop condition holds
ReadProbabilityEnabled == pc = "loop" /\ R > 0

\* weak fairness of ReadProbability, with its enabling condition written out
FairReadProbability == []<>(~ReadProbabilityEnabled) \/ []<><<ReadProbability>>_vars

\* a call that was started keeps executing: it is sequential code with no suspension point
SpecLive ==
    /\ Spec
    /\ WF_vars(ReadAccuracyLog)
    /\ FairReadProbability
    /\ WF_vars(ReadRepeatFlag)
    /\ WF_vars(Finish)

\* -------------------------------------------------- tag state machine
\* the tag_next and max_len the ROM table declares for a tag; "Undeclared" when no row has it
DeclaredNext(tag) ==
    IF RowsOf(tag) = {} THEN "Undeclared" ELSE RomRows[CHOOSE i \in RowsOf(tag) : TRUE].tag_next
DeclaredMaxLen(tag) ==
    IF RowsOf(tag) = {} THEN 0 ELSE RomRows[CHOOSE i \in RowsOf(tag) : TRUE].max_len

\* the idle state of the FSE reconstruction while the tag machine runs
FseIdle ==
    /\ byte_offset = 0
    /\ pc = "init"
    /\ offset = 0
    /\ table_size = 0
    /\ R = 0
    /\ state = 0
    /\ symbol = 0
    /\ sym_to_states = EmptyMap
    /\ bit_boundaries = <<>>
    /\ result = NoResult
    /\ ref = NoResult
    /\ ncorrupt = 0
    /\ prev = NoResult
    /\ ncalls = 0

\* process(src): the first witness row is ZstdWitnessRow::init(src.len())
InitTag ==
    /\ FseIdle
    /\ ExtIdle
    /\ \E n \in 0..MaxSrcLen : src = [i \in 1..n |-> 0]
    /\ row = ZstdWitnessRow_init(Len(src))

\* the current tag is finished: tag_next becomes the tag, and the ROM table gives the
\* tag_next and max_len of the new tag
TagTransition ==
    /\ row.state.tag_next # "Undeclared"
    /\ row' = [row EXCEPT !.state.tag = row.state.tag_next,
                          !.state.tag_next = DeclaredNext(row.state.tag_next),
                          !.state.max_tag_len = DeclaredMaxLen(row.state.tag_next),
                          !.state.is_tag_change = TRUE]
    /\ UNCHANGED <<fseVars, extVars>>

NextTag == TagTransition

SpecTag == InitTag /\ [][NextTag]_vars

\* ------------------------------------- table constructors and conversions
\* reconstruct and the tag state machine at rest while another component runs
RestIdle ==
    /\ FseIdle
    /\ src = <<>>
    /\ row = ZstdWitnessRow_init(0)

InitFn ==
    /\ RestIdle
    /\ ExtIdle

\* tag.is_output(), tag.is_reverse(), tag.is_block() on one tag
CallTagFlags ==
    /\ call = NoCall
    /\ \E tag \in ZstdTags :
          call' = Called("ZstdTag::flags", tag,
                         [is_output |-> is_output(tag), is_reverse |-> is_reverse(tag),
                          is_block |-> is_block(tag)])
    /\ UNCHANGED <<fseVars, row, bus, seq>>

\* RomTagTableRow::rows()
CallRomRows ==
    /\ call = NoCall
    /\ call' = Called("RomTagTableRow::rows", <<>>, RomTagTableRow_rows)
    /\ UNCHANGED <<fseVars, row, bus, seq>>

\* SequenceFixedStateActionTable::reconstruct_lltv()
CallLltv ==
    /\ call = NoCall
    /\ call' = Called("reconstruct_lltv", <<>>, reconstruct_lltv)
    /\ UNCHANGED <<fseVars, row, bus, seq>>

\* SequenceFixedStateActionTable::reconstruct_mltv()
CallMltv ==
    /\ call = NoCall
    /\ call' = Called("reconstruct_mltv", <<>>, reconstruct_mltv)
    /\ UNCHANGED <<fseVars, row, bus, seq>>

\* BlockType::from(v), FseSymbol::from(v) and LstreamNum::from(v)
CallFrom ==
    /\ call = NoCall
    /\ \E v \in ConvInputs :
          \/ call' = Called("BlockType::from", v, BlockType_from(v))
          \/ call' = Called("FseSymbol::from", v, FseSymbol_from(v))
          \/ call' = Called("LstreamNum::from", v, LstreamNum_from(v))
    /\ UNCHANGED <<fseVars, row, bus, seq>>

\* SequenceFixedStateActionTable::reconstruct_cmotv(n) in one of the builds
CallCmotv ==
    /\ call = NoCall
    /\ \E n \in 0..MaxCmotN : \E build \in Builds :
          call' = Called("reconstruct_cmotv", [n |-> n, build |-> build],
                         reconstruct_cmotv(n, build))
    /\ UNCHANGED <<fseVars, row, bus, seq>>

\* ----------------------------------------------------------------- claims
\* the table of a call that returned Ok
Returned == result.kind = "Ok"
\* all rows of a table, in key order
AllRows(table) == FlatRows(table.sym_to_states)

\* C1: in a table returned by a successful reconstruct the states listed across all symbols
\* are exactly 0..table_size-1, each listed exactly once.
C1_StatesExactlyOnce ==
    Returned =>
        LET rows == AllRows(result.table)
        IN  /\ Len(rows) = result.table.table_size
            /\ {rows[i].state : i \in DOMAIN rows} = 0..(result.table.table_size - 1)

\* C1 witness: a successful call whose table has at least three symbols with states
C1_Witness ==
    /\ Returned
    /\ Cardinality({k \in DOMAIN result.table.sym_to_states :
                        result.table.sym_to_states[k] # <<>>}) >= 3

\* C2: parse_state_table of a successfully reconstructed table is a total map on
\* 0..table_size-1 that sends each state to the (symbol, baseline, num_bits) of the one row
\* listing that state.
C2_StateTableTotal ==
    Returned =>
        LET rows == AllRows(result.table)
            m == parse_state_table(result.table)
        IN  /\ DOMAIN m = 0..(result.table.table_size - 1)
            /\ \A s \in DOMAIN m :
                  /\ Cardinality({i \in DOMAIN rows : rows[i].state = s}) = 1
                  /\ \A i \in DOMAIN rows :
                        rows[i].state = s =>
                            m[s] = <<rows[i].symbol, rows[i].baseline, rows[i].num_bits>>

\* C2 witness: the call of tests::test_sequences_fse_reconstruction returned Ok
C2_Witness ==
    /\ Returned
    /\ src = TestSrc2
    /\ byte_offset = TestOff2
    /\ DOMAIN parse_state_table(result.table) # {}

\* C3: for every symbol of a successfully reconstructed table the states of its rows are
\* strictly increasing.
C3_StatesIncreasing ==
    Returned =>
        \A k \in DOMAIN result.table.sym_to_states :
            LET rows == result.table.sym_to_states[k]
            IN  \A i \in 1..(Len(rows) - 1) : rows[i].state < rows[i + 1].state

\* C3 witness: a returned symbol with at least three rows whose slots were allocated out of order
C3_Witness ==
    /\ Returned
    /\ \E k \in DOMAIN result.table.sym_to_states :
          /\ Len(result.table.sym_to_states[k]) >= 3
          /\ k > 0

\* C4: a call on a slice that differs from the first one only before byte_offset or after the
\* bytes the first call consumed returns Ok with the same byte count, table_size and
\* sym_to_states.
C4_OutsideBytesIgnored ==
    (ref.kind = "Ok" /\ pc = "returned") =>
        /\ result.kind = "Ok"
        /\ result.t = ref.t
        /\ result.table.table_size = ref.table.table_size
        /\ result.table.sym_to_states = ref.table.sym_to_states

\* C4 witness: the call on the test slice finished again after a byte before byte_offset and a
\* byte after the consumed bytes changed
C4_Witness ==
    /\ ref.kind = "Ok"
    /\ pc = "returned"
    /\ Len(src) = Len(TestSrc1)
    /\ src[1] # TestSrc1[1]
    /\ src[Len(src)] # TestSrc1[Len(src)]

\* C5: the returned byte count is the number of bits read, divided by 8 and rounded up, and is
\* counted from byte_offset.
C5_ByteCountRoundsUp ==
    Returned =>
        /\ 8 * result.t >= offset
        /\ 8 * (result.t - 1) < offset
        /\ byte_offset + result.t <= Len(src)

\* C5 witness: a successful call at a non-zero byte_offset whose reads ended on a byte boundary
C5_Witness ==
    /\ Returned
    /\ offset % 8 = 0
    /\ byte_offset > 0

\* the rows the test expects for one symbol
ExpectedRows(sym, triples) ==
    [i \in DOMAIN triples |->
        [state |-> triples[i][1], baseline |-> triples[i][2], num_bits |-> triples[i][3],
         symbol |-> sym, num_emitted |-> 0, n_acc |-> 0]]

\* C6: reconstruct of the test slice at offset 3 returns Ok with byte count 4 and the six rows
\* of symbol 1 of tests::test_fse_reconstruction.
C6_TestVector ==
    (src = TestSrc1 /\ byte_offset = TestOff1 /\ pc = "returned") =>
        /\ result.kind = "Ok"
        /\ result.t = 4
        /\ 1 \in DOMAIN result.table.sym_to_states
        /\ result.table.sym_to_states[1] =
              ExpectedRows(1, << <<3, 16, 3>>, <<12, 24, 3>>, <<17, 0, 2>>,
                                 <<21, 4, 2>>, <<26, 8, 2>>, <<30, 12, 2>> >>)

\* C6 witness: the call on the test slice returned
C6_Witness ==
    /\ src = TestSrc1
    /\ byte_offset = TestOff1
    /\ pc = "returned"
    /\ ncorrupt = 0

\* the probability read pending at the top of the `while R > 0` loop
PendingRead == read_variable_bit_packing(Data, offset, R + 1)

\* C7: a probability field of value 0 makes reconstruct return the typed error NotImplemented
\* to its caller instead of crashing.
C7_ZeroValueTypedError ==
    [][(pc = "loop" /\ R > 0 /\ PendingRead.ok /\ PendingRead.value = 0)
           => result' = ErrResult("NotImplemented")]_vars

\* the next read of the call asks for bits past the end of the slice
NeedsMoreInput ==
    \/ pc = "init" /\ ~CanRead(Data, 0, 4)
    \/ pc = "loop" /\ R > 0 /\ ~PendingRead.ok
    \/ pc = "repeat" /\ ~CanRead(Data, offset, 2)

\* C8: when the bytes from byte_offset on run out before R reaches 0 the call returns an
\* UnexpectedEof error and nothing else, and a call never returns Ok with R > 0 or with fewer
\* rows than table_size.
C8_EofIsAtomic ==
    [][/\ NeedsMoreInput => result' = ErrResult("UnexpectedEof")
       /\ result'.kind = "Ok" =>
             /\ R' = 0
             /\ Len(AllRows(result'.table)) = result'.table.table_size]_vars

\* C8 witness: the input ran out after part of the table had been filled
C8_Witness ==
    /\ result = ErrResult("UnexpectedEof")
    /\ R > 0
    /\ \E k \in DOMAIN sym_to_states : sym_to_states[k] # <<>>

\* the keys of a map are 0..k-1 for some k >= 1
ConsecutiveKeys(m) == DOMAIN m # {} /\ DOMAIN m = 0..(Cardinality(DOMAIN m) - 1)

\* C9: the keys of a returned sym_to_states are the consecutive symbol ids 0..k-1, k >= 1; every
\* row under key s has symbol s; a symbol read with probability zero (directly or through a
\* repeat flag) is inserted with an empty row list, and no inserted key is changed afterwards.
C9_ConsecutiveSymbols ==
    [][/\ result'.kind = "Ok" =>
             /\ result'.table.sym_to_states = sym_to_states'
             /\ ConsecutiveKeys(sym_to_states')
             /\ \A s \in DOMAIN sym_to_states' :
                   \A i \in DOMAIN sym_to_states'[s] : sym_to_states'[s][i].symbol = s
       /\ (pc = "loop" /\ R > 0 /\ PendingRead.ok /\ PendingRead.value = 1) =>
             /\ symbol \in DOMAIN sym_to_states'
             /\ sym_to_states'[symbol] = <<>>
       /\ (pc = "repeat" /\ CanRead(Data, offset, 2)) =>
             \A j \in 0..(ReadBits(Data, offset, 2) - 1) :
                 /\ (symbol + j) \in DOMAIN sym_to_states'
                 /\ sym_to_states'[symbol + j] = <<>>
       /\ pc' # "init" =>
             \A k \in DOMAIN sym_to_states :
                 k \in DOMAIN sym_to_states' /\ sym_to_states'[k] = sym_to_states[k]]_vars

\* C9 witness: a returned table in which a symbol with states is followed by two
\* zero-probability symbols
C9_Witness ==
    /\ Returned
    /\ \E s \in DOMAIN sym_to_states :
          /\ s > 0
          /\ (s + 1) \in DOMAIN sym_to_states
          /\ sym_to_states[s - 1] # <<>>
          /\ sym_to_states[s] = <<>>
          /\ sym_to_states[s + 1] = <<>>

\* C10: every tag reached from the initial Null state by following tag_next is the tag of
\* exactly one row of the ROM table.
C10_TransitionTableTotal ==
    row.state.tag # "Null" => Cardinality(RowsOf(row.state.tag)) = 1


\* PairSelectGadget::assign(region, offset, value, a, b)
CallPairSelect ==
    /\ call = NoCall
    /\ \E value \in FieldElems, a \in FieldElems, b \in FieldElems :
          call' = Called("PairSelectGadget::assign", [value |-> value, a |-> a, b |-> b],
                         PairSelectGadget_assign(value, a, b))
    /\ UNCHANGED <<fseVars, row, bus, seq>>

\* LtGadget::<F, NUM_BYTES>::assign(region, offset, lhs, rhs)
CallLt ==
    /\ call = NoCall
    /\ \E num_bytes \in LtNumBytes :
          \E lhs \in LtInputs(num_bytes), rhs \in LtInputs(num_bytes) :
             call' = Called("LtGadget::assign",
                            [num_bytes |-> num_bytes, lhs |-> lhs, rhs |-> rhs],
                            LtGadget_assign(num_bytes, lhs, rhs))
    /\ UNCHANGED <<fseVars, row, bus, seq>>

\* IsZeroGadget::assign(region, offset, value)
CallIsZero ==
    /\ call = NoCall
    /\ \E value \in FieldElems :
          call' = Called("IsZeroGadget::assign", value, IsZeroGadget_assign(value))
    /\ UNCHANGED <<fseVars, row, bus, seq>>

NextFn ==
    \/ CallTagFlags
    \/ CallRomRows
    \/ CallLltv
    \/ CallMltv
    \/ CallFrom
    \/ CallCmotv
    \/ CallPairSelect
    \/ CallLt
    \/ CallIsZero

SpecFn == InitFn /\ [][NextFn]_vars

\* ---------------------------------------- sequence / address reconstruction
InitSeq ==
    /\ RestIdle
    /\ ExtIdle

\* one decoded instruction (literal_length, cooked_match_offset, match_length) is resolved
\* against the repeated-offset cache and its AddressTableRow is emitted
Instruction ==
    /\ Len(seq.rows) < MaxInstr
    /\ \E literal_length \in LiteralLengths, cooked \in 1..MaxCooked,
          match_length \in MatchLengths :
          LET res == ResolveOffset(seq.cache, literal_length, cooked)
          IN  seq' = [cache |-> res.cache,
                      rows |-> Append(seq.rows,
                                      MakeAddressRow(seq.rows, literal_length, cooked,
                                                     match_length, res))]
    /\ UNCHANGED <<fseVars, row, call, bus>>

NextSeq == Instruction

SpecSeq == InitSeq /\ [][NextSeq]_vars

\* ------------------------------------------------------- bus op counter
InitBus ==
    /\ RestIdle
    /\ ExtIdle

\* counter.set_op(&BusOp::put(message, c)) or counter.set_op(&BusOp::take(message, c));
\* bus.ops records what was reported
ReportOp ==
    /\ Len(bus.ops) < MaxOps
    /\ \E kind \in {"put", "take"}, c \in 0..MaxCount,
          message \in {Known(v) : v \in BusMessages} \cup {Unknown} :
          LET op == IF kind = "put" THEN BusOp_put(message, c) ELSE BusOp_take(message, c)
          IN  bus' = [counts |-> set_op(bus.counts, op),
                      ops |-> Append(bus.ops, [kind |-> kind, message |-> message, c |-> c])]
    /\ UNCHANGED <<fseVars, row, call, seq>>

NextBus == ReportOp

SpecBus == InitBus /\ [][NextBus]_vars

\* the tags the decoder processes back-to-front
ReverseTags ==
    {"ZstdBlockHuffmanCode", "ZstdBlockLstream", "FrameContentSize", "BlockHeader",
     "ZstdBlockSequenceData"}

\* C11: is_reverse is true exactly for ZstdBlockHuffmanCode, ZstdBlockLstream,
\* FrameContentSize, BlockHeader and ZstdBlockSequenceData and false for every other tag,
\* Null included; every row of the ROM tag table carries the is_reverse, is_output and
\* is_block of its own tag.
C11_ReverseTagsAndRomFlags ==
    /\ call.fn = "ZstdTag::flags" =>
          (call.out.is_reverse <=> call.arg \in ReverseTags)
    /\ call.fn = "RomTagTableRow::rows" =>
          \A i \in DOMAIN call.out :
             /\ call.out[i].is_reverse = (call.out[i].tag \in ReverseTags)
             /\ call.out[i].is_output = is_output(call.out[i].tag)
             /\ call.out[i].is_block = is_block(call.out[i].tag)

\* is_reverse was asked of BlockHeader and answered true
C11_Witness ==
    /\ call.fn = "ZstdTag::flags"
    /\ call.arg = "BlockHeader"
    /\ call.out.is_reverse

\* C12: the first witness row, ZstdWitnessRow::init(src_len), has tag Null, tag_next
\* FrameHeaderDescriptor, is_tag_change false, tag_idx = tag_len = max_tag_len = 0, byte_idx 0
\* and encoded_len = src_len, and every transition out of it goes to FrameHeaderDescriptor.
C12_FirstRowAndOnlyTransition ==
    [][row.state.tag = "Null" =>
          /\ row.state.tag_next = "FrameHeaderDescriptor"
          /\ row.state.is_tag_change = FALSE
          /\ row.state.tag_idx = 0
          /\ row.state.tag_len = 0
          /\ row.state.max_tag_len = 0
          /\ row.byte_idx = 0
          /\ row.encoded_len = Len(src)
          /\ row'.state.tag = "FrameHeaderDescriptor"]_vars

\* the first row of a non-empty input
C12_Witness ==
    /\ row.state.tag = "Null"
    /\ row.encoded_len = Len(src)
    /\ Len(src) > 0

\* the (baseline, num_bits) pairs a state-action table holds for state s
ActionsOf(t, s) == {t[i][2] : i \in {j \in DOMAIN t : t[j][1] = s}}

\* the states of a state-action table in the order they are listed
StatesListed(t) == [i \in DOMAIN t |-> t[i][1]]

\* C13: reconstruct_mltv maps every state s in 0..=31 to (s + 3, 0) and state 52 to
\* (65539, 16), and lists exactly the states 0..=52, once each, in increasing order.
C13_MatchLengthTable ==
    call.fn = "reconstruct_mltv" =>
       /\ \A s \in 0..31 : ActionsOf(call.out, s) = {<<s + 3, 0>>}
       /\ ActionsOf(call.out, 52) = {<<65539, 16>>}
       /\ StatesListed(call.out) = [i \in 1..53 |-> i - 1]

\* reconstruct_mltv returned a table that holds state 52
C13_Witness ==
    /\ call.fn = "reconstruct_mltv"
    /\ ActionsOf(call.out, 52) # {}
    /\ ActionsOf(call.out, 31) # {}

\* C14: reconstruct_lltv maps every state s in 0..=15 to (s, 0), state 20 to (24, 2) and
\* state 35 to (65536, 16), and lists exactly the states 0..=35, once each, in increasing
\* order.
C14_LiteralLengthTable ==
    call.fn = "reconstruct_lltv" =>
       /\ \A s \in 0..15 : ActionsOf(call.out, s) = {<<s, 0>>}
       /\ ActionsOf(call.out, 20) = {<<24, 2>>}
       /\ ActionsOf(call.out, 35) = {<<65536, 16>>}
       /\ StatesListed(call.out) = [i \in 1..36 |-> i - 1]

\* reconstruct_lltv returned a table that holds states 20 and 35
C14_Witness ==
    /\ call.fn = "reconstruct_lltv"
    /\ ActionsOf(call.out, 20) # {}
    /\ ActionsOf(call.out, 35) # {}

\* 2^i as a u64, in four 16-bit limbs, lowest first
Pow2U64(i) == [k \in 1..4 |-> IF k = (i \div 16) + 1 THEN 2 ^ (i % 16) ELSE 0]

\* C15: reconstruct_cmotv(n) returns n + 1 entries and maps every state i in 0..=n to the
\* baseline 2^i (as a u64) with i bits, also for i >= 31, where the shift must not
\* overflow, wrap or sign-extend.
C15_OffsetTablePowersOfTwo ==
    call.fn = "reconstruct_cmotv" =>
       /\ call.out.kind = "Ok"
       /\ Len(call.out.states_to_actions) = call.arg.n + 1
       /\ \A i \in 0..call.arg.n :
             ActionsOf(call.out.states_to_actions, i) = {<<Pow2U64(i), i>>}

C17_ConversionsPanicOutOfRange ==
    /\ call.fn = "BlockType::from" =>
          /\ call.arg = 0 => call.out = "RawBlock"
          /\ call.arg = 1 => call.out = "RleBlock"
          /\ call.arg = 2 => call.out = "ZstdCompressedBlock"
          /\ call.arg = 3 => call.out = "Reserved"
          /\ call.arg > 3 => call.out = "Panic"
    /\ call.fn = "FseSymbol::from" => (call.out = "Panic" <=> call.arg \notin 0..7)
    /\ call.fn = "LstreamNum::from" => (call.out = "Panic" <=> call.arg \notin 0..3)

\* BlockType::from was called with a value above 3 and panicked
C17_Witness ==
    /\ call.fn = "BlockType::from"
    /\ call.arg > 3
    /\ call.out = "Panic"

\* repeated_offset1 and repeated_offset2 before the next instruction: those of the last
\* row, or the initial cache when no row was emitted yet
PreviousOffsets ==
    IF seq.rows = <<>> THEN SeqStart.cache
    ELSE <<seq.rows[Len(seq.rows)].repeated_offset1, seq.rows[Len(seq.rows)].repeated_offset2>>

\* C18: an instruction whose cooked match offset code is >= 4 pushes its new actual offset
\* to the front of the repeated-offset cache and evicts the oldest entry: its row has
\* repeated_offset1 = the new actual offset, repeated_offset2 = the previous
\* repeated_offset1 and repeated_offset3 = the previous repeated_offset2.
C18_NewOffsetPushedToFront ==
    [][(Len(seq'.rows) = Len(seq.rows) + 1 /\ seq'.rows[Len(seq'.rows)].cooked_match_offset >= 4)
        => LET new == seq'.rows[Len(seq'.rows)]
           IN  /\ new.repeated_offset1 = new.actual_offset
               /\ new.repeated_offset2 = PreviousOffsets[1]
               /\ new.repeated_offset3 = PreviousOffsets[2]]_vars

\* a second instruction with code >= 4 changed all three cached offsets
C18_Witness ==
    /\ Len(seq.rows) >= 2
    /\ seq.rows[2].cooked_match_offset >= 4
    /\ seq.rows[2].repeated_offset1 = seq.rows[2].actual_offset
    /\ seq.rows[2].repeated_offset1 # seq.rows[1].repeated_offset1
    /\ seq.rows[2].repeated_offset2 # seq.rows[1].repeated_offset2
    /\ seq.rows[2].repeated_offset3 # seq.rows[1].repeated_offset3

RECURSIVE Net(_, _)
\* the net count of message v over the reported operations: puts minus takes
Net(ops, v) ==
    IF ops = <<>> THEN 0
    ELSE LET op == ops[Len(ops)]
             rest == Net(SubSeq(ops, 1, Len(ops) - 1), v)
         IN  IF op.message = Known(v)
             THEN (IF op.kind = "put" THEN rest + op.c ELSE rest - op.c)
             ELSE rest

\* the counts of every message are the positive and the negative part of its net count
CountsAreNet(b) ==
    \A v \in BusMessages :
       /\ count_puts(b.counts, Known(v)) = Max(Net(b.ops, v), 0)
       /\ count_takes(b.counts, Known(v)) = Max(-Net(b.ops, v), 0)
       /\ count_puts(b.counts, Known(v)) = 0 \/ count_takes(b.counts, Known(v)) = 0
       /\ (\A i \in DOMAIN b.ops : b.ops[i].message # Known(v)) =>
             (count_puts(b.counts, Known(v)) = 0 /\ count_takes(b.counts, Known(v)) = 0)

\* C19: after any sequence of set_op calls, count_puts(m) = max(net(m), 0) and
\* count_takes(m) = max(-net(m), 0) for every known message m, where net(m) is the sum of
\* the counts reported for m with a take of c counting as -c; so at most one of the two is
\* nonzero, both are 0 for a message never reported, and reporting an operation for one
\* message leaves the counts of every other message unchanged.
C19_CountsAreNetOfPutsAndTakes ==
    [][/\ CountsAreNet(bus)
       /\ CountsAreNet(bus')
       /\ Len(bus'.ops) = Len(bus.ops) + 1 =>
             \A v \in BusMessages :
                bus'.ops[Len(bus'.ops)].message # Known(v) =>
                   /\ count_puts(bus'.counts, Known(v)) = count_puts(bus.counts, Known(v))
                   /\ count_takes(bus'.counts, Known(v)) = count_takes(bus.counts, Known(v))]_vars

\* message 256 was put once and taken twice (net -1); message 0 was never reported
C19_Witness ==
    /\ Len(bus.ops) = 3
    /\ Net(bus.ops, 256) = -1
    /\ count_takes(bus.counts, Known(256)) = 1
    /\ count_puts(bus.counts, Known(256)) = 0
    /\ \E i \in DOMAIN bus.ops : bus.ops[i].kind = "put" /\ bus.ops[i].message = Known(256)
    /\ count_takes(bus.counts, Known(0)) = 0

\* C20: for every value, a and b with value equal to a or to b, PairSelectGadget::assign
\* returns (is_a, is_b) with is_a = 1 when value = a and 0 otherwise, and is_b = 1 when
\* value = b and 0 otherwise, the case a = b included.
C20_PairSelectFlags ==
    (/\ call.fn = "PairSelectGadget::assign"
     /\ (call.arg.value = call.arg.a \/ call.arg.value = call.arg.b))
    => /\ call.out[1] = (IF call.arg.value = call.arg.a THEN 1 ELSE 0)
       /\ call.out[2] = (IF call.arg.value = call.arg.b THEN 1 ELSE 0)

\* C21: for all lhs and rhs below 256^NUM_BYTES, LtGadget::assign returns lt = 1 when
\* lhs < rhs and 0 otherwise, and the assigned witness satisfies lhs - rhs = diff - lt*range
\* in the field, with range = 256^NUM_BYTES and diff in [0, range): diff is lhs - rhs when
\* lhs >= rhs and lhs - rhs + range otherwise.
C21_LtWitnessSatisfiesEquation ==
    call.fn = "LtGadget::assign" =>
       LET lhs == call.arg.lhs
           rhs == call.arg.rhs
           range == 256 ^ call.arg.num_bytes
           diff == from_bytes(call.out.diff_cells)
           lt == call.out.lt_cell
       IN  /\ call.out.ret[1] = (IF lhs < rhs THEN 1 ELSE 0)
           /\ lt = call.out.ret[1]
           /\ diff \in 0..(range - 1)
           /\ diff = (IF lhs >= rhs THEN lhs - rhs ELSE lhs - rhs + range)
           /\ W_sub(lhs, rhs) = W_sub(diff, lt * range)

\* the gadget was called with two bytes and lhs < rhs, and lhs - rhs wrapped in the field
C21_Witness ==
    /\ call.fn = "LtGadget::assign"
    /\ call.arg.num_bytes = 2
    /\ call.arg.lhs < call.arg.rhs
    /\ call.out.lt_cell = 1
    /\ W_sub(call.arg.lhs, call.arg.rhs) > 65535

\* C22: for every field element value, IsZeroGadget::assign returns 1 when value = 0 and 0
\* otherwise; the inverse it assigns satisfies value*(1 - value*inverse) = 0 and
\* inverse*(1 - value*inverse) = 0, and the expression 1 - value*inverse evaluates to the
\* returned result.
C22_IsZeroWitnessSatisfiesGate ==
    call.fn = "IsZeroGadget::assign" =>
       /\ call.out.ret = (IF call.arg = 0 THEN 1 ELSE 0)
       /\ IsZeroGadget_constraints(call.arg, call.out.inverse_cell) = <<0, 0>>
       /\ IsZeroGadget_expr(call.arg, call.out.inverse_cell) = call.out.ret
       /\ (call.arg * call.out.inverse_cell) % Cardinality(FieldElems) =
             (IF call.arg = 0 THEN 0 ELSE 1)

\* the gadget was called with a non-zero value whose inverse is not the value itself
C22_Witness ==
    /\ call.fn = "IsZeroGadget::assign"
    /\ call.arg # 0
    /\ call.out.inverse_cell \notin {0, 1, call.arg}
    /\ call.out.ret = 0

RECURSIVE SumLens(_, _, _)
\* the number of rows under the keys lo..hi of the map
SumLens(m, lo, hi) ==
    IF lo > hi THEN 0
    ELSE IF lo = hi THEN (IF lo \in DOMAIN m THEN Len(m[lo]) ELSE 0)
    ELSE SumLens(m, lo, (lo + hi) \div 2) + SumLens(m, ((lo + hi) \div 2) + 1, hi)

\* the number of states allocated to the symbols below s
AllocatedBefore(m, s) == SumLens(m, 0, s - 1)

\* the k-th state of the spread sequence of a table of ts slots
KthState(k, ts) == (k * ((ts \div 2) + (ts \div 8) + 3)) % ts

\* C23: the states are handed out along one spread sequence shared by all symbols: the k-th
\* state allocated overall, counting across symbols in symbol order and skipping
\* zero-probability symbols, is (k * (table_size/2 + table_size/8 + 3)) mod table_size; a
\* symbol continues where the previous allocation stopped and the first state is 0.
C23_OneSpreadSequence ==
    table_size > 0 =>
       /\ \A s \in DOMAIN sym_to_states :
             {sym_to_states[s][i].state : i \in DOMAIN sym_to_states[s]} =
                {KthState(k, table_size) :
                    k \in AllocatedBefore(sym_to_states, s)..
                          (AllocatedBefore(sym_to_states, s) + Len(sym_to_states[s]) - 1)}
       /\ state = KthState(AllocatedBefore(sym_to_states, symbol), table_size)
       /\ (result.kind = "Ok" /\ AllRows(result.table) # <<>>) =>
             \E i \in DOMAIN AllRows(result.table) :
                /\ AllRows(result.table)[i].state = 0
                /\ \A s \in DOMAIN sym_to_states :
                      s < AllRows(result.table)[i].symbol => sym_to_states[s] = <<>>

\* a returned table whose third symbol with states starts in the middle of the sequence
C23_Witness ==
    /\ Returned
    /\ \E s \in DOMAIN sym_to_states :
          /\ Len(sym_to_states[s]) >= 2
          /\ AllocatedBefore(sym_to_states, s) >= 3
          /\ \E z \in 0..(s - 1) : sym_to_states[z] = <<>>
          /\ KthState(AllocatedBefore(sym_to_states, s), table_size) # 0

\* the map m with the keys lo..hi added, each with an empty state list
WithEmpty(m, lo, hi) == [k \in DOMAIN m \cup lo..hi |-> IF k \in lo..hi THEN <<>> ELSE m[k]]

\* C24: when a probability field gives N = 0 for symbol s, 2-bit repeat flags are read while
\* the flag read is 3, stopping at the first flag < 3; exactly the symbols s .. s + f1 + ... +
\* fj get empty state lists, the next probability field is assigned to symbol
\* s + 1 + f1 + ... + fj, and R is unchanged by the whole step.
C24_RepeatFlagsChain ==
    [][/\ (pc = "loop" /\ R > 0 /\ PendingRead.ok /\ PendingRead.value = 1) =>
             /\ pc' = "repeat"
             /\ sym_to_states' = WithEmpty(sym_to_states, symbol, symbol)
             /\ symbol' = symbol + 1
             /\ R' = R /\ state' = state
       /\ (pc = "repeat" /\ CanRead(Data, offset, 2)) =>
             LET f == ReadBits(Data, offset, 2)
             IN  /\ pc' = (IF f = 3 THEN "repeat" ELSE "loop")
                 /\ sym_to_states' = WithEmpty(sym_to_states, symbol, symbol + f - 1)
                 /\ symbol \notin DOMAIN sym_to_states
                 /\ symbol' = symbol + f
                 /\ R' = R /\ state' = state
       /\ (pc = "loop" /\ R > 0 /\ PendingRead.ok /\ PendingRead.value > 1) =>
             /\ DOMAIN sym_to_states' = DOMAIN sym_to_states \cup {symbol}
             /\ symbol \notin DOMAIN sym_to_states
             /\ Len(sym_to_states'[symbol]) = PendingRead.value - 1
             /\ symbol' = symbol + 1]_vars

\* a flag of 3 was followed by a flag below 3, and the next field gave states to the
\* symbol after the empty ones
C24_Witness ==
    /\ pc \in {"loop", "returned"}
    /\ \E s \in DOMAIN sym_to_states :
          /\ s >= 5
          /\ sym_to_states[s] # <<>>
          /\ \A z \in (s - 5)..(s - 1) : sym_to_states[z] = <<>>
    /\ \E i \in 2..(Len(bit_boundaries) - 2) :
          /\ bit_boundaries[i][2] = 1
          /\ bit_boundaries[i + 1] = <<bit_boundaries[i][1] + 2, 3>>
          /\ bit_boundaries[i + 2][1] = bit_boundaries[i][1] + 4
          /\ bit_boundaries[i + 2][2] < 3

\* the low 4 bits of the byte at byte_offset
AccuracyField == src[byte_offset + 1] % 16

\* C25: reconstruct reads the low 4 bits of the byte at byte_offset as field v and sets
\* AL = v + 5 and table_size = 2^AL, a power of two in [2^5, 2^20]; the first entry of the
\* returned bit-boundary list is (4, v) and the returned table carries the byte_offset
\* argument.
C25_AccuracyLog ==
    /\ table_size > 0 =>
          /\ table_size = 2 ^ (AccuracyField + 5)
          /\ table_size \in {2 ^ al : al \in 5..20}
          /\ bit_boundaries[1] = <<4, AccuracyField>>
    /\ Returned =>
          /\ result.bit_boundaries[1] = <<4, AccuracyField>>
          /\ result.table.table_size = 2 ^ (AccuracyField + 5)
          /\ result.table.byte_offset = byte_offset

\* a successful call at a non-zero byte_offset with a non-zero accuracy field
C25_Witness ==
    /\ Returned
    /\ byte_offset > 0
    /\ AccuracyField > 0
    /\ result.table.table_size = 64

\* the next-state interval [baseline, baseline + 2^num_bits) of a row
NextStates(r) == r.baseline..(r.baseline + (2 ^ r.num_bits) - 1)

\* C26: for every symbol with N >= 1 states in a returned table the next-state intervals
\* [baseline, baseline + 2^num_bits) of its rows are pairwise disjoint and their union is
\* [0, table_size): every row ends at or below table_size and the 2^num_bits sum to
\* table_size; a symbol with N = 1 has baseline 0 and num_bits equal to the accuracy log.
C26_BaselinesTileTable ==
    Returned =>
       \A s \in DOMAIN result.table.sym_to_states :
          LET rows == result.table.sym_to_states[s]
              ts == result.table.table_size
          IN  rows # <<>> =>
                 /\ \A i \in DOMAIN rows : rows[i].baseline + 2 ^ rows[i].num_bits <= ts
                 /\ \A i, j \in DOMAIN rows :
                       i # j => NextStates(rows[i]) \cap NextStates(rows[j]) = {}
                 /\ UNION {NextStates(rows[i]) : i \in DOMAIN rows} = 0..(ts - 1)
                 /\ SumShares([i \in DOMAIN rows |-> rows[i].num_bits], 1, Len(rows)) = ts
                 /\ Len(rows) = 1 =>
                       (rows[1].baseline = 0 /\ 2 ^ rows[1].num_bits = ts)

\* a returned table with a single-state symbol and a symbol whose rows have two different
\* numbers of bits
C26_Witness ==
    /\ Returned
    /\ \E s \in DOMAIN sym_to_states : Len(sym_to_states[s]) = 1
    /\ \E s \in DOMAIN sym_to_states :
          \E i, j \in DOMAIN sym_to_states[s] :
             /\ sym_to_states[s][i].num_bits # sym_to_states[s][j].num_bits
             /\ sym_to_states[s][i].baseline > 0

\* the cumulative bit offsets of a bit-boundary list grow from each entry to the next
StrictlyIncreasing(bb) == \A i \in 1..(Len(bb) - 1) : bb[i][1] < bb[i + 1][1]

\* C27: the bit-boundary list gets one entry per primitive read (accuracy log, probability
\* field, repeat flag, and the discarded trailing bits when the reads did not end on a
\* byte boundary) and none otherwise; in the list a successful call returns the cumulative
\* bit offsets are strictly increasing and the last one is 8 times the returned byte count.
C27_BitBoundaries ==
    [][pc' # "init" =>
          /\ IF result'.kind = "Err" \/ (pc = "loop" /\ R = 0 /\ offset % 8 = 0)
             THEN bit_boundaries' = bit_boundaries
             ELSE /\ Len(bit_boundaries') = Len(bit_boundaries) + 1
                  /\ SubSeq(bit_boundaries', 1, Len(bit_boundaries)) = bit_boundaries
                  /\ bit_boundaries'[Len(bit_boundaries')][1] > offset
          /\ result'.kind = "Ok" =>
                /\ result'.bit_boundaries = bit_boundaries'
                /\ StrictlyIncreasing(result'.bit_boundaries)
                /\ result'.bit_boundaries[Len(result'.bit_boundaries)][1] = 8 * result'.t]_vars

\* a successful call that read repeat flags and discarded trailing bits
C27_Witness ==
    /\ Returned
    /\ offset % 8 # 0
    /\ Len(result.bit_boundaries) >= 6
    /\ result.bit_boundaries[Len(result.bit_boundaries)][1] > offset
    /\ \E s \in DOMAIN sym_to_states : sym_to_states[s] = <<>>

\* a step of the outer loop or of the repeat-flag loop that does not end the call
LoopIteration == pc \in {"loop", "repeat"} /\ pc' \in {"loop", "repeat"}

\* C28: reconstruct terminates on every finite slice and byte_offset: every iteration of the
\* outer loop and of the repeat-flag loop consumes at least one bit, N never exceeds the
\* budget R, so R never underflows, and the call ends in Ok with R = 0, in an end-of-input
\* error or at the unsupported value = 0 case.
C28_Terminates ==
    /\ [][/\ LoopIteration => offset' > offset
          /\ (pc = "loop" /\ R > 0 /\ PendingRead.ok) => PendingRead.value - 1 <= R
          /\ R' >= 0
          /\ (pc # "returned" /\ pc' = "returned") =>
                \/ result'.kind = "Ok" /\ R = 0
                \/ result' = ErrResult("UnexpectedEof")
                \/ result'.kind = "Panic" /\ PendingRead.ok /\ PendingRead.value = 0]_vars
    /\ [](offset <= 8 * Len(Data))
    /\ (pc # "returned") ~> (pc = "returned")

\* a call that went through both loops returned Ok with the budget used up
C28_Witness ==
    /\ Returned
    /\ R = 0
    /\ Len(bit_boundaries) >= 6
    /\ \E s \in DOMAIN sym_to_states : sym_to_states[s] = <<>>

\* the (baseline, num_bits) actions of a table with integer baselines, in table order
IntActions(t) == [i \in DOMAIN t |-> t[i][2]]

\* the actions of an offset table, the baselines read back from their two low limbs
LimbActions(t) == [i \in DOMAIN t |-> <<t[i][2][1][1] + 65536 * t[i][2][1][2], t[i][2][2]>>]

\* the two high limbs of every baseline of an offset table are zero
FitsInLowLimbs(t) == \A i \in DOMAIN t : t[i][2][1][3] = 0 /\ t[i][2][1][4] = 0

\* the last value of the interval of an action
IntervalEnd(a) == a[1] + ((2 ^ a[2]) - 1)

\* the number of actions among the first n whose interval holds v
RECURSIVE Covering(_, _, _)
Covering(acts, n, v) ==
    IF n = 0 THEN 0
    ELSE Covering(acts, n - 1, v)
           + (IF acts[n][1] <= v /\ v <= IntervalEnd(acts[n]) THEN 1 ELSE 0)

\* the values at which the number of covering actions can change: both ends of every
\* interval and the values next to them
Breakpoints(acts) ==
    UNION {{acts[i][1] - 1, acts[i][1], IntervalEnd(acts[i])} : i \in DOMAIN acts}
      \cup {IntervalEnd(acts[i]) + 1 : i \in 1..(Len(acts) - 1)}

\* every interval begins where the one before ends, the first begins at `first`, and every
\* value from `first` to the end of the last interval lies in exactly one interval
Tiles(acts, first) ==
    /\ acts[1][1] = first
    /\ \A i \in 1..(Len(acts) - 1) : acts[i + 1][1] = acts[i][1] + 2 ^ acts[i][2]
    /\ \A v \in Breakpoints(acts) :
          Covering(acts, Len(acts), v)
             = (IF first <= v /\ v <= IntervalEnd(acts[Len(acts)]) THEN 1 ELSE 0)

\* C29: in each fixed action table (literal lengths, match lengths, offsets for n < 31) the
\* baseline of state i + 1 is the baseline of state i plus 2^num_bits of state i, so every
\* value from the first baseline (0, 3 and 1) up to the last baseline + 2^num_bits - 1 is
\* covered by exactly one state.
C29_FixedTablesContiguous ==
    /\ call.fn = "reconstruct_lltv" => Tiles(IntActions(call.out), 0)
    /\ call.fn = "reconstruct_mltv" => Tiles(IntActions(call.out), 3)
    /\ (call.fn = "reconstruct_cmotv" /\ call.arg.n < 31) =>
          /\ call.out.kind = "Ok"
          /\ FitsInLowLimbs(call.out.states_to_actions)
          /\ Tiles(LimbActions(call.out.states_to_actions), 1)

\* reconstruct_cmotv(30) returned its table of 31 states
C29_Witness ==
    /\ call.fn = "reconstruct_cmotv"
    /\ call.arg.n = 30
    /\ call.out.kind = "Ok"
    /\ Len(call.out.states_to_actions) = 31

====
